---- MODULE Spec2Model ----
(***************************************************************************)
(* find_highest_entropy.py: main() builds a Model of a mesh, optimises its *)
(* camera position with Adam for at most range(...) iterations, writes one *)
(* frame file per iteration to /tmp/_tmp_%04d.png and finally has          *)
(* make_gif() append the frame files to the output and delete them.        *)
(*                                                                         *)
(* One action per statement of main() and make_gif(); pc is the statement  *)
(* about to run.  Calls into neural_renderer, torch, skimage and imageio   *)
(* either return or raise: a raise is the "env" exception of the action.   *)
(***************************************************************************)
EXTENDS Integers, Sequences, FiniteSets, TLC

VARIABLES
    pc,                     \* statement of main()/make_gif() about to run
    exc,                    \* the uncaught exception, NoExc while none
    make_reference_image,   \* args.make_reference_image
    ref_file,               \* what is stored at args.filename_ref
    vertices, faces, textures, image_ref,   \* buffers of Model
    camera_position,        \* the nn.Parameter of Model
    grad,                   \* camera_position.grad
    exp_avg, opt_step,      \* Adam's state for camera_position
    loss, dloss,            \* the loss of model() and d loss / d camera_position
    it,                     \* next value of the range iterator behind tqdm
    i,                      \* the loop variable of main()
    files,                  \* the files matching /tmp/_tmp_*.png: name -> image
    preexisting,            \* the names matching /tmp/_tmp_*.png when main() starts
    todo, k,                \* make_gif: sorted(glob(...)) and the position in it
    gif,                    \* frames appended to the output writer
    everBelow               \* history: some loss of this run was below Threshold

vars == <<pc, exc, make_reference_image, ref_file, vertices, faces, textures,
          image_ref, camera_position, grad, exp_avg, opt_step, loss, dloss,
          it, i, files, preexisting, todo, k, gif, everBelow>>

---------------------------------------------------------------------------
(* Bounds and program constants *)

\* range(1000) of main(), scaled down; 11 iterations reach the index 10,
\* the first whose decimal form has more digits than a one-digit index
NumIters == 11

\* number of candidate files left in /tmp by earlier runs
MaxStale == 2

\* if loss.item() < 70
Threshold == 70

\* '%04d'
Width == 4

---------------------------------------------------------------------------
(* Floating-point values of the loss *)

Num(n) == [k |-> "num", v |-> n]
NaN    == [k |-> "nan", v |-> 0]
PosInf == [k |-> "inf", v |-> 0]
NoLoss == [k |-> "unbound", v |-> 0]

\* the values 1.0 / entropy can take: finite ones around the threshold,
\* inf for entropy 0 and nan for a nan image
Losses == {Num(Threshold - 1), Num(Threshold), Num(Threshold + 1), PosInf, NaN}

\* variant: <= in place of <
LessThanLe(x, c) == x.k = "num" /\ x.v <= c
\* x < c of Python floats: False whenever x is nan or +inf
LessThan(x, c) == x.k = "num" /\ x.v < c

\* loss.item() < 70
StopCondition(l) == LessThan(l, Threshold)

---------------------------------------------------------------------------
(* Three-component vectors *)

Zero3 == <<0, 0, 0>>
Add3(a, b) == <<a[1] + b[1], a[2] + b[2], a[3] + b[3]>>
Sub3(a, b) == <<a[1] - b[1], a[2] - b[2], a[3] - b[3]>>
Clip(x) == IF x > 1 THEN 1 ELSE IF x < -1 THEN -1 ELSE x
Clip3(a) == <<Clip(a[1]), Clip(a[2]), Clip(a[3])>>

\* gradients of the loss with respect to camera_position
Grads == {Zero3, <<1, 0, -1>>}

\* np.array([6, 10, -14])
InitialCamera == <<6, 10, -14>>

---------------------------------------------------------------------------
(* Frame file names: the digits between "/tmp/_tmp_" and ".png" *)

RECURSIVE Digits(_)
Digits(n) == IF n < 10 THEN <<n>> ELSE Digits(n \div 10) \o <<n % 10>>

RECURSIVE Pad(_, _)
Pad(s, w) == IF Len(s) >= w THEN s ELSE Pad(<<0>> \o s, w)

\* variant: '%d' % i
FmtNoPad(n) == Digits(n)
\* '%04d' % i
Fmt(n) == Pad(Digits(n), Width)

\* the number a name denotes
RECURSIVE Val(_)
Val(s) == IF s = <<>> THEN 0 ELSE 10 * Val(SubSeq(s, 1, Len(s) - 1)) + s[Len(s)]

\* a < b of the path strings: the first differing character decides, and
\* the '.' that follows the digits sorts before every digit
RECURSIVE LexLess(_, _)
LexLess(a, b) ==
    IF a = <<>> THEN b # <<>>
    ELSE IF b = <<>> THEN FALSE
    ELSE IF Head(a) # Head(b) THEN Head(a) < Head(b)
    ELSE LexLess(Tail(a), Tail(b))

\* variant: sorted(S, reverse=True)
RECURSIVE SortedDesc(_)
SortedDesc(S) ==
    IF S = {} THEN <<>>
    ELSE LET m == CHOOSE x \in S : \A y \in S \ {x} : LexLess(y, x)
         IN  <<m>> \o SortedDesc(S \ {m})
\* sorted(S)
RECURSIVE Sorted(_)
Sorted(S) ==
    IF S = {} THEN <<>>
    ELSE LET m == CHOOSE x \in S : \A y \in S \ {x} : LexLess(x, y)
         IN  <<m>> \o Sorted(S \ {m})

\* imsave(name, img)
Write(fs, name, img) ==
    [n \in DOMAIN fs \cup {name} |-> IF n = name THEN img ELSE fs[n]]

\* os.remove(name)
Remove(fs, name) == [n \in DOMAIN fs \ {name} |-> fs[n]]

\* frames an earlier run may have left behind
StaleIndices == {11 * j - 9 : j \in 1..MaxStale}
StaleImage == [eye |-> Zero3, tex |-> 0]

---------------------------------------------------------------------------
(* Model *)

None == "None"
NoExc == [at |-> "none", kind |-> "none"]

\* torch.ones(...), in hundredths
Ones == 100
\* torch.tanh of all-ones, in hundredths; a new tensor
Tanh(t) == IF t = Ones THEN 76 ELSE t

\* Model.__init__: imread(filename_ref) raises when filename_ref is None
ModelInit(filename_ref) ==
    IF filename_ref = None
    THEN [ok |-> FALSE, kind |-> "imread(None)"]
    ELSE [ok |-> TRUE, kind |-> "none"]

\* variant: the buffers registered as parameters too
ParametersAll == {"camera_position", "vertices", "textures"}
\* the tensors optimizer.step() updates: model.parameters()
Parameters == {"camera_position"}

\* renderer(vertices, faces, textures): the image seen from renderer.eye,
\* which is the camera_position parameter itself
Render(eye, tex) == [eye |-> eye, tex |-> tex]

\* variant: os.remove before append_data
NextPcRemoveFirst(p) ==
    CASE p = "for"        -> "zero_grad"
      [] p = "zero_grad"  -> "forward"
      [] p = "forward"    -> "backward"
      [] p = "backward"   -> "step"
      [] p = "step"       -> "snapshot"
      [] p = "snapshot"   -> "check"
      [] p = "gif_for"    -> "gif_remove"
      [] p = "gif_remove" -> "gif_append"
      [] p = "gif_append" -> "gif_for"
\* statement order inside the loop body of main() and of make_gif()
NextPc(p) ==
    CASE p = "for"        -> "zero_grad"
      [] p = "zero_grad"  -> "forward"
      [] p = "forward"    -> "backward"
      [] p = "backward"   -> "step"
      [] p = "step"       -> "snapshot"
      [] p = "snapshot"   -> "check"
      [] p = "gif_for"    -> "gif_append"
      [] p = "gif_append" -> "gif_remove"
      [] p = "gif_remove" -> "gif_for"

LoopPcs == {"for", "zero_grad", "forward", "backward", "step", "snapshot", "check"}
GifPcs == {"gif_open", "gif_for", "gif_append", "gif_remove", "gif_close"}

\* variant: the loop body wrapped in try/except that leaves the loop
PropagateSwallowed(p) == IF p \in LoopPcs THEN "make_gif" ELSE "failed"
\* no try/except anywhere: an exception raised at statement p ends the process
Propagate(p) == "failed"

\* variant: make_gif called inside the loop body
AfterMakeGifInLoop == "for"
\* where main() goes when make_gif() returns
AfterMakeGif == "done"

---------------------------------------------------------------------------
(* Actions *)

Init ==
    /\ pc = "main"
    /\ exc = NoExc
    /\ make_reference_image \in {0, 1}
    /\ ref_file = "original"
    /\ vertices = 0 /\ faces = 0 /\ textures = 0 /\ image_ref = "unset"
    /\ camera_position = Zero3
    /\ grad = Zero3 /\ exp_avg = Zero3 /\ opt_step = 0
    /\ loss = NoLoss /\ dloss = Zero3
    /\ it = 0 /\ i = -1
    /\ \E S \in SUBSET StaleIndices :
          /\ files = [n \in {Fmt(j) : j \in S} |-> StaleImage]
          /\ preexisting = {Fmt(j) : j \in S}
    /\ todo = <<>> /\ k = 0
    /\ gif = <<>>
    /\ everBelow = FALSE

ModelVars == <<vertices, faces, textures, image_ref, camera_position>>
OptVars == <<grad, exp_avg, opt_step>>
LoopVars == <<loss, dloss, it, i, everBelow>>
GifVars == <<todo, k, gif>>
ArgVars == <<make_reference_image, preexisting>>

\* an exception raised by the statement at pc
Raise(kind) ==
    /\ pc' = Propagate(pc)
    /\ exc' = [at |-> pc, kind |-> kind]
    /\ UNCHANGED <<ArgVars, ref_file, ModelVars, OptVars, LoopVars, files, GifVars>>

\* if args.make_reference_image:
MainIf ==
    /\ pc = "main"
    /\ pc' = IF make_reference_image # 0 THEN "make_reference_image" ELSE "Model"
    /\ UNCHANGED <<exc, ArgVars, ref_file, ModelVars, OptVars, LoopVars, files, GifVars>>

\* make_reference_image(args.filename_ref, args.filename_obj):
\* Model(filename_obj) leaves filename_ref at its default None
MakeReferenceImage ==
    /\ pc = "make_reference_image"
    /\ LET m == ModelInit(None)
       IN  IF m.ok
           THEN /\ ref_file' = "synthesized"
                /\ pc' = "Model"
                /\ UNCHANGED <<exc, ArgVars, ModelVars, OptVars, LoopVars, files, GifVars>>
           ELSE Raise(m.kind)

\* model = Model(args.filename_obj, args.filename_ref); model.cuda();
\* optimizer = Adam(model.parameters(), lr=0.1); loop = tqdm(range(...))
ConstructModel ==
    /\ pc = "Model"
    /\ \/ Raise("env")
       \/ LET m == ModelInit("filename_ref")
          IN  IF m.ok
              THEN /\ vertices' = 1 /\ faces' = 1 /\ textures' = Ones
                   /\ image_ref' = ref_file
                   /\ camera_position' = InitialCamera
                   /\ grad' = Zero3 /\ exp_avg' = Zero3 /\ opt_step' = 0
                   /\ it' = 0
                   /\ pc' = "for"
                   /\ UNCHANGED <<exc, ArgVars, ref_file, loss, dloss, i, everBelow,
                                  files, GifVars>>
              ELSE Raise(m.kind)

\* variant: a loop without the range bound
ForNoBound ==
    /\ pc = "for"
    /\ i' = it /\ it' = it + 1
    /\ pc' = NextPc("for")
    /\ UNCHANGED <<exc, ArgVars, ref_file, ModelVars, OptVars, loss, dloss, everBelow,
                   files, GifVars>>
\* for i in loop:
For ==
    /\ pc = "for"
    /\ IF it < NumIters
       THEN /\ i' = it /\ it' = it + 1
            /\ pc' = NextPc("for")
       ELSE /\ pc' = "make_gif"
            /\ UNCHANGED <<i, it>>
    /\ UNCHANGED <<exc, ArgVars, ref_file, ModelVars, OptVars, loss, dloss, everBelow,
                   files, GifVars>>

\* variant: zero_grad() left out
ZeroGradNoop ==
    /\ pc = "zero_grad"
    /\ pc' = NextPc("zero_grad")
    /\ UNCHANGED <<exc, ArgVars, ref_file, ModelVars, OptVars, LoopVars, files, GifVars>>
\* optimizer.zero_grad()
ZeroGrad ==
    /\ pc = "zero_grad"
    /\ grad' = Zero3
    /\ pc' = NextPc("zero_grad")
    /\ UNCHANGED <<exc, ArgVars, ref_file, ModelVars, exp_avg, opt_step, LoopVars,
                   files, GifVars>>

\* loss = model(): Model.forward renders the silhouette and returns 1 / entropy
Forward ==
    /\ pc = "forward"
    /\ \/ Raise("env")
       \/ \E l \in Losses, d \in Grads :
             /\ loss' = l /\ dloss' = d
             /\ everBelow' = (everBelow \/ (l.k = "num" /\ l.v < Threshold))
             /\ pc' = NextPc("forward")
             /\ UNCHANGED <<exc, ArgVars, ref_file, ModelVars, OptVars, it, i,
                            files, GifVars>>

\* loss.backward(): adds d loss / d camera_position to camera_position.grad
Backward ==
    /\ pc = "backward"
    /\ grad' = Add3(grad, dloss)
    /\ pc' = NextPc("backward")
    /\ UNCHANGED <<exc, ArgVars, ref_file, ModelVars, exp_avg, opt_step, LoopVars,
                   files, GifVars>>

\* optimizer.step(): Adam moves every parameter against its running average
\* of gradients (the magnitude of the update is abstracted to one unit)
Step ==
    /\ pc = "step"
    /\ LET m   == Clip3(Add3(exp_avg, grad))
           upd == IF m = Zero3 THEN 0 ELSE 1
       IN  /\ exp_avg' = m
           /\ camera_position' = IF "camera_position" \in Parameters
                                 THEN Sub3(camera_position, m) ELSE camera_position
           /\ vertices' = IF "vertices" \in Parameters THEN vertices - upd ELSE vertices
           /\ faces' = IF "faces" \in Parameters THEN faces - upd ELSE faces
           /\ textures' = IF "textures" \in Parameters THEN textures - upd ELSE textures
           /\ image_ref' = image_ref
    /\ opt_step' = opt_step + 1
    /\ pc' = NextPc("step")
    /\ UNCHANGED <<exc, ArgVars, ref_file, grad, LoopVars, files, GifVars>>

\* images = model.renderer(vertices, faces, torch.tanh(textures));
\* imsave('/tmp/_tmp_%04d.png' % i, image); loop.set_description(...)
Snapshot ==
    /\ pc = "snapshot"
    /\ \/ Raise("env")
       \/ /\ files' = Write(files, Fmt(i), Render(camera_position, Tanh(textures)))
          /\ pc' = NextPc("snapshot")
          /\ UNCHANGED <<exc, ArgVars, ref_file, ModelVars, OptVars, LoopVars, GifVars>>

\* if loss.item() < 70: break
Check ==
    /\ pc = "check"
    /\ pc' = IF StopCondition(loss) THEN "make_gif" ELSE "for"
    /\ UNCHANGED <<exc, ArgVars, ref_file, ModelVars, OptVars, LoopVars, files, GifVars>>

\* make_gif(args.filename_output)
CallMakeGif ==
    /\ pc = "make_gif"
    /\ pc' = "gif_open"
    /\ UNCHANGED <<exc, ArgVars, ref_file, ModelVars, OptVars, LoopVars, files, GifVars>>

\* with imageio.get_writer(filename, mode='I') as writer:
\*     for filename in sorted(glob.glob('/tmp/_tmp_*.png')):
GifOpen ==
    /\ pc = "gif_open"
    /\ \/ Raise("env")
       \/ /\ todo' = Sorted(DOMAIN files)
          /\ k' = 0
          /\ gif' = <<>>
          /\ pc' = "gif_for"
          /\ UNCHANGED <<exc, ArgVars, ref_file, ModelVars, OptVars, LoopVars, files>>

\* the next filename of the sorted list, or the end of the loop
GifFor ==
    /\ pc = "gif_for"
    /\ IF k < Len(todo)
       THEN /\ k' = k + 1
            /\ pc' = NextPc("gif_for")
       ELSE /\ pc' = "gif_close"
            /\ k' = k
    /\ UNCHANGED <<exc, ArgVars, ref_file, ModelVars, OptVars, LoopVars, files, todo, gif>>

\* writer.append_data(imread(filename))
GifAppend ==
    /\ pc = "gif_append"
    /\ \/ Raise("env")
       \/ IF todo[k] \in DOMAIN files
          THEN /\ gif' = Append(gif, [name |-> todo[k], img |-> files[todo[k]]])
               /\ pc' = NextPc("gif_append")
               /\ UNCHANGED <<exc, ArgVars, ref_file, ModelVars, OptVars, LoopVars,
                              files, todo, k>>
          ELSE Raise("FileNotFoundError")

\* os.remove(filename)
GifRemove ==
    /\ pc = "gif_remove"
    /\ \/ Raise("env")
       \/ /\ files' = Remove(files, todo[k])
          /\ pc' = NextPc("gif_remove")
          /\ UNCHANGED <<exc, ArgVars, ref_file, ModelVars, OptVars, LoopVars, GifVars>>

\* leaving the with block, writer.close(), and the return to main()
GifClose ==
    /\ pc = "gif_close"
    /\ pc' = AfterMakeGif
    /\ UNCHANGED <<exc, ArgVars, ref_file, ModelVars, OptVars, LoopVars, files, GifVars>>

Next ==
    \/ MainIf
    \/ MakeReferenceImage
    \/ ConstructModel
    \/ For
    \/ ZeroGrad
    \/ Forward
    \/ Backward
    \/ Step
    \/ Snapshot
    \/ Check
    \/ CallMakeGif
    \/ GifOpen
    \/ GifFor
    \/ GifAppend
    \/ GifRemove
    \/ GifClose

Spec == Init /\ [][Next]_vars

\* the interpreter runs the next statement whenever there is one
FairSpec == Spec /\ WF_vars(Next)

---------------------------------------------------------------------------
(* Properties *)

PreLoopPcs == {"main", "make_reference_image", "Model"}
Raised == exc # NoExc
Names(s) == [j \in 1..Len(s) |-> s[j].name]
Ascending(s) == \A a, b \in 1..Len(s) : a < b => Val(s[a]) < Val(s[b])
FourDigit(S) == \A n \in S : Len(n) = Width

\* C1: the training loop ends after at most NumIters iterations whatever the
\* losses are (none below the threshold, infinite ones), and once the loop
\* has ended make_gif is eventually called.
C1_LoopTerminates ==
    /\ [](it <= NumIters /\ i < NumIters)
    /\ <>(pc \notin PreLoopPcs \cup LoopPcs)
    /\ (pc = "make_gif") ~> (pc \in GifPcs)

\* the bound ended the loop, no loss was ever below the threshold, the last
\* loss was infinite, and make_gif has been entered
C1_Witness ==
    /\ pc = "gif_open" /\ it = NumIters /\ i = NumIters - 1
    /\ ~everBelow /\ loss = PosInf

\* C2: the loop stops at the first loss below the threshold or when the
\* bound is reached: the next iteration starts if and only if the index is
\* below the bound and no loss so far was below the threshold.
C2_StopsAtFirstEvent ==
    [][ /\ (pc = "check" => (pc' = "for" <=> ~everBelow))
        /\ (pc = "check" /\ everBelow => pc' = "make_gif")
        /\ (pc = "for" => ~everBelow /\ (pc' = "zero_grad" <=> it < NumIters))
        /\ (pc = "for" /\ it >= NumIters => pc' = "make_gif")
        /\ (pc' = "zero_grad" => ~everBelow /\ i' = i + 1 /\ i' < NumIters)
        /\ (everBelow => i' = i)
      ]_vars

\* the loop was left early, on the third iteration
C2_Witness == pc = "make_gif" /\ everBelow /\ i = 2 /\ it < NumIters

\* C3: make_gif lists the 4-digit frame files in ascending numeric order,
\* each once, and when it returns the output holds a frame for each of
\* them, in that order, and no frame file is left.
C3_GifAllFramesInOrder ==
    /\ [][ (pc = "gif_open" /\ pc' = "gif_for" /\ FourDigit(DOMAIN files)) =>
               /\ {todo'[j] : j \in 1..Len(todo')} = DOMAIN files
               /\ Len(todo') = Cardinality(DOMAIN files)
               /\ Ascending(todo')
      ]_vars
    /\ []( (pc = "done" /\ FourDigit({todo[j] : j \in 1..Len(todo)})) =>
               /\ Names(gif) = todo
               /\ Len(gif) = Len(todo)
               /\ DOMAIN files = {} )

\* make_gif has returned after assembling frames of this run and a stale one
C3_Witness ==
    /\ pc = "done" /\ Len(gif) >= 4 /\ DOMAIN files = {}
    /\ \E n \in preexisting : Val(n) > i

\* C4: no step of the training loop changes vertices, faces, textures or
\* the reference image, and only optimizer.step() changes camera_position.
C4_OnlyCameraChanges ==
    [][ (pc \in LoopPcs) =>
            /\ vertices' = vertices /\ faces' = faces
            /\ textures' = textures /\ image_ref' = image_ref
            /\ (camera_position' # camera_position => pc = "step")
      ]_vars

\* the second iteration has moved the camera and saved its snapshot
C4_Witness ==
    /\ pc = "check" /\ i = 1 /\ camera_position # InitialCamera
    /\ vertices = 1 /\ textures = Ones

\* C5: make_gif runs strictly after the loop: frames are appended to the
\* output and frame files deleted only inside make_gif, the loop is never
\* re-entered once make_gif has started, and while the loop runs make_gif
\* has listed and appended nothing.
C5_GifAfterLoop ==
    /\ [][ /\ (pc \in GifPcs \cup {"done"} => pc' \notin LoopPcs)
           /\ (gif' # gif \/ DOMAIN files \ DOMAIN files' # {} => pc \in GifPcs)
           /\ (DOMAIN files' \ DOMAIN files # {} \/ pc = "snapshot" =>
                   todo = <<>> /\ gif = <<>> /\ k = 0)
      ]_vars
    /\ [](pc \in LoopPcs => todo = <<>> /\ gif = <<>> /\ k = 0)

\* make_gif is deleting its second frame after a loop of three iterations
C5_Witness == pc = "gif_remove" /\ k = 2 /\ i = 2 /\ Len(gif) = 2

\* C6 as stated: after an exception or a NaN loss in a step no later
\* iteration starts, the step is not run again and make_gif is not entered.
C6_Original ==
    [][ (Raised \/ loss.k = "nan") =>
            pc' \notin {"zero_grad", "gif_open"} /\ pc' # exc.at
      ]_vars

\* C6 amended: an exception raised in a step ends the run for good (no
\* further statement runs, make_gif has done nothing), whereas a NaN loss
\* raises nothing: the stop check fails on it and the loop goes on.
C6_ExceptionFatalNaNContinues ==
    /\ [][~Raised]_vars
    /\ [](Raised => pc = "failed")
    /\ [](Raised /\ exc.at \in LoopPcs => todo = <<>> /\ gif = <<>> /\ k = 0)
    /\ [][ (loss.k = "nan" /\ pc = "check") => pc' = "for"
      ]_vars
    /\ [][ (loss.k = "nan" /\ pc = "for" /\ it < NumIters) => pc' = "zero_grad"
      ]_vars

\* the render of an iteration raised after the previous iteration had
\* produced a NaN loss
C6_Witness ==
    /\ pc = "failed" /\ exc.at = "forward" /\ exc.kind = "env"
    /\ loss.k = "nan" /\ i = 2

\* C7: with a truthy --make_reference_image, once the run is past
\* make_reference_image the reference file has been synthesized and
\* make_reference_image has not raised.
C7_ReferenceWrittenFirst ==
    (make_reference_image # 0 /\ pc \notin {"main", "make_reference_image"}) =>
        (ref_file = "synthesized" /\ exc.at # "make_reference_image")

\* C8: the statements of an iteration run in the order zero_grad, forward,
\* backward, step, snapshot, check; the gradient the optimizer steps on is
\* that of the current loss alone; the snapshot of iteration i shows the
\* camera position after the optimizer step of iteration i.
Order == <<"zero_grad", "forward", "backward", "step", "snapshot", "check">>
C8_IterationOrder ==
    /\ [][ /\ \A j \in 1..5 : pc = Order[j] => pc' \in {Order[j + 1], "failed"}
           /\ (pc' = "zero_grad" => pc = "for")
           /\ (pc = "snapshot" /\ pc' = "check" =>
                   /\ opt_step = i + 1
                   /\ files'[Fmt(i)].eye = camera_position)
      ]_vars
    /\ [](pc = "step" => grad = dloss)
    /\ [](pc \in {"snapshot", "check"} => opt_step = i + 1)

\* the second iteration has stepped on a nonzero gradient after a first
\* iteration with a nonzero gradient, and saved its snapshot
C8_Witness ==
    /\ pc = "check" /\ i = 1 /\ grad = <<1, 0, -1>>
    /\ camera_position = <<4, 10, -12>>
    /\ files[Fmt(1)].eye = camera_position

\* C9: in make_gif a frame file is deleted right after it was appended and
\* not before: the files left are the listed ones from the current one on
\* (from the next one on once it is removed), the output holds exactly the
\* ones before; a failure of the append leaves that state behind.
Remaining(j) == {todo[x] : x \in j..Len(todo)}
At(p) == pc = p \/ (pc = "failed" /\ exc.at = p)
C9_DeleteAfterAppend ==
    /\ At("gif_append") =>
           DOMAIN files = Remaining(k) /\ Names(gif) = SubSeq(todo, 1, k - 1)
    /\ At("gif_remove") =>
           DOMAIN files = Remaining(k) /\ Names(gif) = SubSeq(todo, 1, k)
    /\ pc \in {"gif_for", "gif_close", "done"} =>
           DOMAIN files = Remaining(k + 1) /\ Names(gif) = SubSeq(todo, 1, k)

\* appending the third of at least four frames failed
C9_Witness ==
    /\ pc = "failed" /\ exc.at = "gif_append" /\ k = 3 /\ Len(todo) >= 4
    /\ Len(gif) = 2

\* C10: with no frame file at the start, after n iterations the frame
\* files are exactly those of the indices 0..n-1, and make_gif returns
\* with n frames, the j-th being the frame of iteration j-1.
C10_OneFramePerIteration ==
    /\ (preexisting = {} /\ pc \in {"make_gif", "gif_open"}) =>
           /\ {Val(n) : n \in DOMAIN files} = 0..i
           /\ Cardinality(DOMAIN files) = i + 1
           /\ FourDigit(DOMAIN files)
    /\ (preexisting = {} /\ pc = "done") =>
           /\ Len(gif) = i + 1
           /\ \A j \in 1..Len(gif) : Val(gif[j].name) = j - 1

\* an early stop on the third iteration, whose frame is in the output too
C10_Witness ==
    /\ preexisting = {} /\ pc = "done" /\ everBelow
    /\ i = 2 /\ Len(gif) = 3

====
